---- MODULE Spec2Model ----
(***************************************************************************)
(* State-machine model of the App component of src/src/App.tsx: the        *)
(* sequential model loader, the camera session (startVideo / stopVideo),   *)
(* the detection interval started by handleVideoOnPlay, and the derived    *)
(* stats the component renders.                                            *)
(*                                                                         *)
(* One action is one macrotask of the browser's event loop: a click        *)
(* handler together with the re-render and the effect cleanup it causes,   *)
(* or the continuation of an async function after an await.                *)
(***************************************************************************)
EXTENDS Integers, Sequences, FiniteSets, TLC

\* ---------------------------------------------------------------- bounds
MaxStreams == 2    \* streams live or requested at one time
MaxTimers == 2     \* interval ids that are active or stored at one time
MaxCalls == 2      \* detectAllFaces promises pending at one time
MaxFaces == 2      \* faces in one detection result
MaxConf == 1       \* confidence levels 0..MaxConf of an expression label
MaxInbox == 2      \* HTTP requests the backend has received and not answered

\* ------------------------------------------------------- program constants
\* The `models` array of loadModels, by name, in list order.
ModelNames ==
    <<"Tiny Face Detector", "Face Landmarks", "Face Recognition", "Face Expressions">>

NModels == Len(ModelNames)

\* The own enumerable properties of a faceapi.FaceExpressions object, in the
\* order Object.entries lists them.
Labels ==
    <<"neutral", "happy", "sad", "angry", "fearful", "disgusted", "surprised">>

\* The labels whose confidence varies over the inputs; the others are 0.
Varying == {"neutral", "happy"}

\* faceExpressions === null
Null == <<>>

\* An expression mapping is the sequence of its confidences in Labels order.
ExprInputs ==
    {e \in [1..Len(Labels) -> 0..MaxConf] :
        \A i \in 1..Len(Labels) : Labels[i] \notin Varying => e[i] = 0}

\* A mapping whose dominant label differs from that of e: every varying
\* confidence is mirrored in 0..MaxConf.
Mirror(e) ==
    [i \in 1..Len(Labels) |-> IF Labels[i] \in Varying THEN MaxConf - e[i] ELSE 0]

\* Detection results: a sequence of faces, each face given by its expression
\* mapping; the faces after the first carry the mirror of the first one's.
Detections ==
    {<<>>} \cup
    UNION {{[i \in 1..n |-> IF i = 1 THEN e ELSE Mirror(e)] : e \in ExprInputs}
             : n \in 1..MaxFaces}

\* Values of the `error` state.
NoError == [kind |-> "none", model |-> ""]
ModelLoadError(name) == [kind |-> "model", model |-> name]
GenericLoadError == [kind |-> "models", model |-> ""]
CameraError == [kind |-> "camera", model |-> ""]

VARIABLES
    mounted,          \* the component is mounted
    loadPc,           \* loadModels: "awaiting" | "done" | "halted"
    loadIdx,          \* loadModels: 1-based index of the model being awaited
    loadStarts,       \* history: indices whose load() was called, in order
    loadsPending,     \* indices whose load() promise is not yet settled
    progressLog,      \* history: values passed to setLoadingProgress, in order
    loadingProgress,  \* useState
    isModelLoaded,    \* useState
    error,            \* useState
    isCameraOn,       \* useState
    detectionEnabled, \* useState
    detectedFaces,    \* useState
    faceExpressions,  \* useState
    intervalId,       \* useState: 0 is null
    pendingCam,       \* getUserMedia promises not yet settled
    liveStreams,      \* acquired streams whose tracks are live
    srcObject,        \* videoRef.current.srcObject: 0 is null
    activeTimers,     \* interval ids set and not cleared
    closureLoaded,    \* intervals whose callback captured isModelLoaded = true
    calls,            \* detectAllFaces promises not yet settled, in start order
    canvas,           \* number of faces drawn on the overlay; 0 is cleared
    lastDone          \* history: how the call that settled last ended, and the
                      \* result (face count, expressions of face 0) that was
                      \* published last while mounted

\* The state of the backend (the Express app of the server).
VARIABLES
    stoppedIdle       \* history: the last stopVideo() call since the last
                      \* bound stream found no stream bound

VARIABLES
    inbox,            \* requests received and not yet answered
    lastResponse      \* history: the request answered last and its response

serverVars == <<inbox, lastResponse>>

appVars ==
    <<mounted, loadPc, loadIdx, loadStarts, loadsPending, progressLog, loadingProgress,
      isModelLoaded, error, isCameraOn, detectionEnabled, detectedFaces,
      faceExpressions, intervalId, pendingCam, liveStreams, srcObject,
      activeTimers, closureLoaded, calls, canvas, lastDone, stoppedIdle>>

vars == <<appVars, serverVars>>

loaderVars ==
    <<loadPc, loadIdx, loadStarts, loadsPending, progressLog, loadingProgress,
      isModelLoaded>>

cameraVars == <<pendingCam, liveStreams, srcObject, isCameraOn>>

timerVars == <<activeTimers, closureLoaded, intervalId>>

resultVars == <<detectedFaces, faceExpressions, canvas>>

\* A state setter called on an unmounted component changes nothing.
SetState(old, new) == IF mounted THEN new ELSE old

\* Progress computed from the loop index i instead of i + 1.
Progress_FromIndex(k) == ((k - 1) * 100) \div NModels

\* ((i + 1) / models.length) * 100 after the k-th load (k = i + 1).  With
\* four models every value is an integer that the float arithmetic yields
\* exactly.
Progress(k) == (k * 100) \div NModels

\* lastResponse before any request was answered.
NoResponse ==
    [request |-> [method |-> "", path |-> ""], status |-> 0,
     body |-> [type |-> "", status |-> ""]]

\* lastDone before any call has settled.
NoCall == [kind |-> "none", faces |-> 0, first |-> Null]

Init ==
    /\ mounted = TRUE
    /\ loadPc = "awaiting"
    /\ loadIdx = 1
    /\ loadStarts = <<1>>
    /\ loadsPending = {1}
    /\ progressLog = <<0>>
    /\ loadingProgress = 0
    /\ isModelLoaded = FALSE
    /\ error = NoError
    /\ isCameraOn = FALSE
    /\ detectionEnabled = FALSE
    /\ detectedFaces = 0
    /\ faceExpressions = Null
    /\ intervalId = 0
    /\ pendingCam = 0
    /\ liveStreams = {}
    /\ srcObject = 0
    /\ activeTimers = {}
    /\ closureLoaded = {}
    /\ calls = <<>>
    /\ canvas = 0
    /\ lastDone = NoCall
    /\ stoppedIdle = FALSE
    /\ inbox = {}
    /\ lastResponse = NoResponse

\* ------------------------------------------------------------ loadModels
\* A loop that steps by two.
NextModel_Skip(i) == i + 2

\* The i++ of the for loop: the model whose load is called after model i.
NextModel(i) == i + 1

\* models[i].load() resolves: progress is published and either the next
\* load is started or, after the last one, isModelLoaded is set.
loadModelsSucceed ==
    /\ loadPc = "awaiting"
    /\ loadingProgress' = SetState(loadingProgress, Progress(loadIdx))
    /\ progressLog' = SetState(progressLog, Append(progressLog, Progress(loadIdx)))
    /\ IF loadIdx < NModels
         THEN /\ loadIdx' = NextModel(loadIdx)
              /\ loadStarts' = Append(loadStarts, NextModel(loadIdx))
              /\ loadsPending' = (loadsPending \ {loadIdx}) \cup {NextModel(loadIdx)}
              /\ UNCHANGED <<loadPc, isModelLoaded>>
         ELSE /\ loadPc' = "done"
              /\ isModelLoaded' = SetState(isModelLoaded, TRUE)
              /\ loadsPending' = loadsPending \ {loadIdx}
              /\ UNCHANGED <<loadIdx, loadStarts>>
    /\ UNCHANGED <<mounted, error, detectionEnabled, lastDone>>
    /\ UNCHANGED <<cameraVars, timerVars, calls, resultVars>>
    /\ UNCHANGED <<serverVars, stoppedIdle>>

\* The inner catch reporting the generic message of the outer catch.
loadModelsFail_Generic ==
    /\ loadPc = "awaiting"
    /\ loadPc' = "halted"
    /\ error' = SetState(error, GenericLoadError)
    /\ loadsPending' = loadsPending \ {loadIdx}
    /\ UNCHANGED <<loadIdx, loadStarts, progressLog, loadingProgress, isModelLoaded>>
    /\ UNCHANGED <<mounted, detectionEnabled, lastDone>>
    /\ UNCHANGED <<cameraVars, timerVars, calls, resultVars>>
    /\ UNCHANGED <<serverVars, stoppedIdle>>

\* models[i].load() rejects: the inner catch names the model and returns.
loadModelsFail ==
    /\ loadPc = "awaiting"
    /\ loadPc' = "halted"
    /\ error' = SetState(error, ModelLoadError(ModelNames[loadIdx]))
    /\ loadsPending' = loadsPending \ {loadIdx}
    /\ UNCHANGED <<loadIdx, loadStarts, progressLog, loadingProgress, isModelLoaded>>
    /\ UNCHANGED <<mounted, detectionEnabled, lastDone>>
    /\ UNCHANGED <<cameraVars, timerVars, calls, resultVars>>
    /\ UNCHANGED <<serverVars, stoppedIdle>>

\* ------------------------------------------------------------ startVideo
\* disabled={isCameraOn} on the Start Camera button
StartDisabled == isCameraOn

\* Click on Start Camera: startVideo runs up to the await of getUserMedia.
startVideo ==
    /\ mounted
    /\ ~StartDisabled
    /\ pendingCam + Cardinality(liveStreams) < MaxStreams
    /\ pendingCam' = pendingCam + 1
    /\ UNCHANGED <<liveStreams, srcObject, isCameraOn>>
    /\ UNCHANGED <<mounted, error, detectionEnabled, lastDone>>
    /\ UNCHANGED <<loaderVars, timerVars, calls, resultVars>>
    /\ UNCHANGED <<serverVars, stoppedIdle>>

\* Identities not in use: a stream that is stopped and unbound is forgotten.
FreeStreams == {s \in 1..MaxStreams : s \notin liveStreams /\ s # srcObject}

\* A grant that binds the stream and leaves isCameraOn as it was.
startVideoGranted_NoFlag ==
    /\ pendingCam > 0
    /\ FreeStreams # {}
    /\ LET stream == CHOOSE s \in FreeStreams : \A o \in FreeStreams : s <= o
       IN /\ liveStreams' = liveStreams \cup {stream}
          /\ IF mounted
               THEN /\ srcObject' = stream
                    /\ isCameraOn' = isCameraOn
               ELSE UNCHANGED <<srcObject, isCameraOn>>
    /\ pendingCam' = pendingCam - 1
    /\ stoppedIdle' = FALSE
    /\ UNCHANGED <<mounted, error, detectionEnabled, lastDone>>
    /\ UNCHANGED <<loaderVars, timerVars, calls, resultVars>>
    /\ UNCHANGED serverVars

\* getUserMedia resolves with a new stream; it is bound when the video
\* element is still there.
startVideoGranted ==
    /\ pendingCam > 0
    /\ FreeStreams # {}
    /\ LET stream == CHOOSE s \in FreeStreams : \A o \in FreeStreams : s <= o
       IN /\ liveStreams' = liveStreams \cup {stream}
          /\ IF mounted
               THEN /\ srcObject' = stream
                    /\ isCameraOn' = TRUE
               ELSE UNCHANGED <<srcObject, isCameraOn>>
    /\ pendingCam' = pendingCam - 1
    /\ stoppedIdle' = FALSE
    /\ UNCHANGED <<mounted, error, detectionEnabled, lastDone>>
    /\ UNCHANGED <<loaderVars, timerVars, calls, resultVars>>
    /\ UNCHANGED serverVars

\* getUserMedia rejects.
startVideoDenied ==
    /\ pendingCam > 0
    /\ pendingCam' = pendingCam - 1
    /\ error' = SetState(error, CameraError)
    /\ UNCHANGED <<liveStreams, srcObject, isCameraOn>>
    /\ UNCHANGED <<mounted, detectionEnabled, lastDone>>
    /\ UNCHANGED <<loaderVars, timerVars, calls, resultVars>>
    /\ UNCHANGED <<serverVars, stoppedIdle>>

\* ------------------------------------------------------------- intervals
\* if (intervalId) clearInterval(intervalId): the active intervals left.
ClearInterval(id) == IF id # 0 THEN activeTimers \ {id} ELSE activeTimers

\* The pending calls once interval id is cleared: those its ticks started
\* belong to no interval any more (timer 0).
Orphaned(id) ==
    [k \in 1..Len(calls) |->
        IF id # 0 /\ calls[k].timer = id THEN [calls[k] EXCEPT !.timer = 0]
                                         ELSE calls[k]]

\* ------------------------------------------------------------- stopVideo
\* disabled={!isCameraOn} on the Stop Camera button
StopDisabled == ~isCameraOn

\* stopVideo without its clearInterval.
StopVideoBody_NoClear ==
    IF srcObject # 0
      THEN /\ liveStreams' = liveStreams \ {srcObject}
           /\ srcObject' = 0
           /\ isCameraOn' = FALSE
           /\ detectionEnabled' = FALSE
           /\ UNCHANGED <<activeTimers, calls>>
      ELSE UNCHANGED <<liveStreams, srcObject, isCameraOn, detectionEnabled,
                       activeTimers, calls>>

\* stopVideo where an idle call turns the camera flag on.
StopVideoBody_Toggle ==
    IF srcObject # 0
      THEN /\ liveStreams' = liveStreams \ {srcObject}
           /\ srcObject' = 0
           /\ isCameraOn' = FALSE
           /\ detectionEnabled' = FALSE
           /\ activeTimers' = ClearInterval(intervalId)
           /\ calls' = Orphaned(intervalId)
      ELSE /\ isCameraOn' = TRUE
           /\ UNCHANGED <<liveStreams, srcObject, detectionEnabled,
                          activeTimers, calls>>

\* The body of stopVideo.
StopVideoBody ==
    IF srcObject # 0
      THEN /\ liveStreams' = liveStreams \ {srcObject}
           /\ srcObject' = 0
           /\ isCameraOn' = FALSE
           /\ detectionEnabled' = FALSE
           /\ activeTimers' = ClearInterval(intervalId)
           /\ calls' = Orphaned(intervalId)
      ELSE UNCHANGED <<liveStreams, srcObject, isCameraOn, detectionEnabled,
                       activeTimers, calls>>

\* A call of stopVideo() on the mounted component, whatever the button
\* shows.  stoppedIdle records that the call found no stream bound.
stopVideoCall ==
    /\ mounted
    /\ StopVideoBody
    /\ stoppedIdle' = (srcObject = 0)
    /\ UNCHANGED <<pendingCam, closureLoaded, intervalId>>
    /\ UNCHANGED <<mounted, error, lastDone>>
    /\ UNCHANGED <<loaderVars, resultVars>>
    /\ UNCHANGED serverVars

\* Click on Stop Camera.
stopVideo ==
    /\ ~StopDisabled
    /\ stopVideoCall

\* ----------------------------------------------------- handleVideoOnPlay
\* The Detect Faces button without the !isCameraOn test.
DetectDisabled_NoCamera == ~isModelLoaded \/ detectionEnabled

\* disabled={!isCameraOn || !isModelLoaded || detectionEnabled}
DetectDisabled == ~isCameraOn \/ ~isModelLoaded \/ detectionEnabled

\* Interval ids not in use: neither active nor stored in intervalId.
FreeTimers == {t \in 1..MaxTimers : t \notin activeTimers /\ t # intervalId}

\* setIntervalId(id) with no cleanup of the interval stored before.
EffectCleanup_None(id) == activeTimers \cup {id}

\* The intervals active after setIntervalId(id) and the re-render it causes:
\* the cleanup of the intervalId effect clears the interval stored before.
EffectCleanup(id) == ClearInterval(intervalId) \cup {id}

\* Click on Detect Faces: the assignments to canvas.width and canvas.height
\* clear the overlay; a new interval is set and stored in intervalId.
handleVideoOnPlay ==
    /\ mounted
    /\ ~DetectDisabled
    /\ FreeTimers # {}
    /\ canvas' = 0
    /\ LET id == CHOOSE t \in FreeTimers : \A o \in FreeTimers : t <= o
       IN /\ intervalId' = id
          /\ activeTimers' = EffectCleanup(id)
          /\ closureLoaded' = IF isModelLoaded THEN closureLoaded \cup {id}
                                               ELSE closureLoaded \ {id}
    /\ calls' = Orphaned(intervalId)
    /\ UNCHANGED <<mounted, error, detectionEnabled, lastDone>>
    /\ UNCHANGED <<detectedFaces, faceExpressions>>
    /\ UNCHANGED <<loaderVars, cameraVars>>
    /\ UNCHANGED <<serverVars, stoppedIdle>>

\* The tick skips without calling detectAllFaces.
TickSkips(t) == t \notin closureLoaded

\* The interval callback up to its await: skip when the captured
\* isModelLoaded is false, else call detectAllFaces.
detectionTick(t) ==
    /\ t \in activeTimers
    /\ Len(calls) < MaxCalls
    /\ IF TickSkips(t)
         THEN UNCHANGED calls
         ELSE calls' = Append(calls, [timer |-> t, stale |-> FALSE])
    /\ UNCHANGED <<mounted, error, detectionEnabled, lastDone>>
    /\ UNCHANGED <<loaderVars, cameraVars, timerVars, resultVars>>
    /\ UNCHANGED <<serverVars, stoppedIdle>>

\* The reduce with a[1] >= b[1] as its test: the first maximum wins.
RECURSIVE Reduce_KeepFirst(_, _, _)
Reduce_KeepFirst(e, i, a) ==
    IF i > Len(e) THEN a
    ELSE Reduce_KeepFirst(e, i + 1, IF e[a] >= e[i] THEN a ELSE i)

\* Object.entries(faceExpressions).reduce((a, b) => a[1] > b[1] ? a : b),
\* from entry i on with accumulator a (both are positions in Labels).
RECURSIVE Reduce(_, _, _)
Reduce(e, i, a) ==
    IF i > Len(e) THEN a
    ELSE Reduce(e, i + 1, IF e[a] > e[i] THEN a ELSE i)

\* The Mood stat as rendered; "none" stands for the stat not being rendered.
Mood ==
    IF detectedFaces > 0
      THEN IF faceExpressions # Null
             THEN Labels[Reduce(faceExpressions, 2, 1)]
             ELSE "No expression detected"
      ELSE "none"

\* The pending calls once call k has settled; when it published, the calls
\* started before it are stale.
Settled(k, published) ==
    [j \in 1..(Len(calls) - 1) |->
        IF j < k THEN [calls[j] EXCEPT !.stale = @ \/ published]
                 ELSE calls[j + 1]]

\* A face count that merges with the previous one instead of replacing it.
FaceCount_Merge(det) == IF Len(det) > detectedFaces THEN Len(det) ELSE detectedFaces

\* setDetectedFaces(detections.length)
FaceCount(det) == Len(det)

\* detections.length > 0 ? detections[0].expressions : null
FirstExpressions(det) == IF Len(det) > 0 THEN det[1] ELSE Null

\* A callback that sets the face count and the expressions before it tests
\* the context.
detectionResolved_PublishFirst(k, det, ctx) ==
    /\ k \in 1..Len(calls)
    /\ calls' = Settled(k, ctx)
    /\ detectedFaces' = SetState(detectedFaces, FaceCount(det))
    /\ faceExpressions' = SetState(faceExpressions, FirstExpressions(det))
    /\ IF ctx
         THEN /\ canvas' = Len(det)
              /\ lastDone' = IF mounted
                                THEN [kind |-> "published", faces |-> Len(det),
                                      first |-> IF det = <<>> THEN Null ELSE det[1]]
                                ELSE [lastDone EXCEPT !.kind = "detached"]
         ELSE /\ canvas' = canvas
              /\ lastDone' = [lastDone EXCEPT !.kind = "norender"]
    /\ UNCHANGED <<mounted, error, detectionEnabled>>
    /\ UNCHANGED <<loaderVars, cameraVars, timerVars>>
    /\ UNCHANGED <<serverVars, stoppedIdle>>

\* The interval callback after its await, when detectAllFaces resolved with
\* det; ctx tells whether canvas.getContext('2d') returned a context.
detectionResolved(k, det, ctx) ==
    /\ k \in 1..Len(calls)
    /\ calls' = Settled(k, ctx)
    /\ IF ctx
         THEN /\ canvas' = Len(det)
              /\ detectedFaces' = SetState(detectedFaces, FaceCount(det))
              /\ faceExpressions' = SetState(faceExpressions, FirstExpressions(det))
              /\ lastDone' = IF mounted
                                THEN [kind |-> "published", faces |-> Len(det),
                                      first |-> IF det = <<>> THEN Null ELSE det[1]]
                                ELSE [lastDone EXCEPT !.kind = "detached"]
         ELSE /\ UNCHANGED resultVars
              /\ lastDone' = [lastDone EXCEPT !.kind = "norender"]
    /\ UNCHANGED <<mounted, error, detectionEnabled>>
    /\ UNCHANGED <<loaderVars, cameraVars, timerVars>>
    /\ UNCHANGED <<serverVars, stoppedIdle>>

\* A value of `error` for a failed detection tick.
DetectionError == [kind |-> "detection", model |-> ""]

\* A catch that calls setError.
CatchError_Set == SetState(error, DetectionError)

\* What the catch of the interval callback leaves in the error state.
CatchError == error

\* The interval callback after its await, when detectAllFaces rejected: the
\* catch logs and sets no state.
detectionFailed(k) ==
    /\ k \in 1..Len(calls)
    /\ calls' = Settled(k, FALSE)
    /\ lastDone' = [lastDone EXCEPT !.kind = "failed"]
    /\ error' = CatchError
    /\ UNCHANGED <<mounted, detectionEnabled>>
    /\ UNCHANGED <<loaderVars, cameraVars, timerVars, resultVars>>
    /\ UNCHANGED <<serverVars, stoppedIdle>>

\* ---------------------------------------------------------------- unmount
\* The component unmounts: the cleanup of the intervalId effect runs.
unmount ==
    /\ mounted
    /\ mounted' = FALSE
    /\ activeTimers' = ClearInterval(intervalId)
    /\ calls' = Orphaned(intervalId)
    /\ UNCHANGED <<closureLoaded, intervalId>>
    /\ UNCHANGED <<error, detectionEnabled, lastDone>>
    /\ UNCHANGED <<loaderVars, cameraVars, resultVars>>
    /\ UNCHANGED <<serverVars, stoppedIdle>>

\* ------------------------------------------------------------- Try Again
\* Click on Try Again, shown while error is set: window.location.reload().
\* The page is discarded with its timers, its pending promises and its
\* media streams, and the component starts again from its initial state,
\* loadModels called by the mount effect.
reload ==
    /\ mounted
    /\ error # NoError
    /\ loadPc' = "awaiting"
    /\ loadIdx' = 1
    /\ loadStarts' = <<1>>
    /\ loadsPending' = {1}
    /\ progressLog' = <<0>>
    /\ loadingProgress' = 0
    /\ isModelLoaded' = FALSE
    /\ error' = NoError
    /\ isCameraOn' = FALSE
    /\ detectionEnabled' = FALSE
    /\ detectedFaces' = 0
    /\ faceExpressions' = Null
    /\ intervalId' = 0
    /\ pendingCam' = 0
    /\ liveStreams' = {}
    /\ srcObject' = 0
    /\ activeTimers' = {}
    /\ closureLoaded' = {}
    /\ calls' = <<>>
    /\ canvas' = 0
    /\ lastDone' = NoCall
    /\ stoppedIdle' = FALSE
    /\ UNCHANGED mounted
    /\ UNCHANGED serverVars

Next ==
    \/ reload
    \/ loadModelsSucceed
    \/ loadModelsFail
    \/ startVideo
    \/ startVideoGranted
    \/ startVideoDenied
    \/ stopVideo
    \/ handleVideoOnPlay
    \/ \E t \in 1..MaxTimers : detectionTick(t)
    \/ \E k \in 1..MaxCalls, det \in Detections : detectionResolved(k, det, TRUE)
    \/ \E k \in 1..MaxCalls : detectionResolved(k, <<>>, FALSE)
    \/ \E k \in 1..MaxCalls : detectionFailed(k)
    \/ unmount

Spec == Init /\ [][Next]_vars

\* The component with stopVideo() also called directly, enabled button or
\* not.
DirectNext ==
    \/ Next
    \/ stopVideoCall

SpecDirectStop == Init /\ [][DirectNext]_vars

\* ---------------------------------------------------------------- backend
\* The requests sent to the backend.
Requests ==
    [method : {"GET", "POST"},
     path : {"/health", "/api/health", "/api/health/", "/"}]

\* A route registered with app.post instead of app.get.
HealthRoute_Post == [method |-> "POST", path |-> "/api/health"]

\* app.get('/api/health', ...)
HealthRoute == [method |-> "GET", path |-> "/api/health"]

\* Express matches a route path with or without a trailing slash.
RouteMatches(req) ==
    /\ req.method = HealthRoute.method
    /\ req.path \in {HealthRoute.path, "/api/health/"}

\* The response of the Express app: res.json({ status: 'ok' }) from the
\* health route, 404 with an HTML body when no route matches.
Respond(req) ==
    IF RouteMatches(req)
      THEN [request |-> req, status |-> 200, body |-> [type |-> "json", status |-> "ok"]]
      ELSE [request |-> req, status |-> 404, body |-> [type |-> "html", status |-> ""]]

\* The backend receives a request.
serverReceive(req) ==
    /\ Cardinality(inbox) < MaxInbox
    /\ req \notin inbox
    /\ inbox' = inbox \cup {req}
    /\ UNCHANGED <<lastResponse, appVars>>

\* The backend answers a request.
serverRespond(req) ==
    /\ req \in inbox
    /\ inbox' = inbox \ {req}
    /\ lastResponse' = Respond(req)
    /\ UNCHANGED appVars

ServerNext ==
    \/ \E req \in Requests : serverReceive(req)
    \/ \E req \in Requests : serverRespond(req)

SpecServer == Init /\ [][ServerNext]_vars


TypeOK ==
    /\ mounted \in BOOLEAN
    /\ loadPc \in {"awaiting", "done", "halted"}
    /\ loadIdx \in 1..NModels
    /\ isModelLoaded \in BOOLEAN
    /\ isCameraOn \in BOOLEAN
    /\ detectionEnabled \in BOOLEAN
    /\ detectedFaces \in 0..MaxFaces
    /\ faceExpressions \in ExprInputs \cup {Null}
    /\ intervalId \in 0..MaxTimers
    /\ pendingCam \in 0..MaxStreams
    /\ liveStreams \subseteq 1..MaxStreams
    /\ srcObject \in 0..MaxStreams
    /\ activeTimers \subseteq 1..MaxTimers
    /\ Len(calls) <= MaxCalls
    /\ canvas \in 0..MaxFaces
    /\ stoppedIdle \in BOOLEAN

\* ================================================================ claims

\* The pending calls that the ticks of interval t started.
CallsOf(t) == {k \in 1..Len(calls) : calls[k].timer = t}

\* C1: in every reachable state at most one inference call started by the
\* ticks of one detection interval is outstanding; a tick that fires while
\* the previous tick's call is pending starts no second call.
C1_SingleFlight == \A t \in 1..MaxTimers : Cardinality(CallsOf(t)) <= 1

\* C2: when the result of an inference call arrives after its interval was
\* cancelled (stopVideo or unmount), it is discarded: the overlay, the face
\* count and the expression state stay as they are.
C2_LateResultDiscarded ==
    [][\A k \in 1..MaxCalls :
          (/\ k <= Len(calls)
           /\ calls[k].timer = 0
           /\ \E det \in Detections : detectionResolved(k, det, TRUE))
          => UNCHANGED resultVars]_vars

\* C3: every stopVideo made while a stream is bound to the video element
\* leaves every track of that stream stopped, the binding cleared,
\* isCameraOn false and no detection interval active.
C3_StopReleases ==
    [][(stopVideo /\ srcObject # 0)
          => /\ srcObject \notin liveStreams'
             /\ srcObject' = 0
             /\ ~isCameraOn'
             /\ activeTimers' = {}]_vars

\* C3 witness: stopVideo has run while an interval was stored: the camera
\* is off, nothing is bound or live, the stored interval is not active.
C3_Witness ==
    /\ mounted
    /\ intervalId # 0
    /\ activeTimers = {}
    /\ ~isCameraOn
    /\ srcObject = 0
    /\ liveStreams = {}

\* C4: when all models load, the published progress takes exactly the
\* values 0, 100/N, 2*100/N, ..., 100 in that order, and isModelLoaded is
\* false in every state before the N-th load has succeeded and true after.
C4_ProgressSteps ==
    /\ Len(progressLog) <= NModels + 1
    /\ \A i \in 1..Len(progressLog) : progressLog[i] * NModels = (i - 1) * 100
    /\ loadingProgress = progressLog[Len(progressLog)]
    /\ isModelLoaded => Len(progressLog) = NModels + 1
    /\ (mounted /\ loadPc = "done") => (isModelLoaded /\ Len(progressLog) = NModels + 1)

\* C4 witness: all N loads succeeded and were published.
C4_Witness ==
    /\ isModelLoaded
    /\ progressLog = <<0, 25, 50, 75, 100>>
    /\ loadingProgress = 100

\* C5: when the k-th load fails, loading halts for the rest of that load
\* attempt (only the page reload of Try Again starts another): the models
\* after k are never attempted, progress stays at 100*(k-1)/N,
\* isModelLoaded stays false, and the error recorded at the failure names
\* the k-th model.
C5_FailureHalts ==
    [][/\ (mounted /\ loadPc = "awaiting" /\ loadPc' = "halted")
            => error' = [kind |-> "model", model |-> ModelNames[loadIdx]]
       /\ (mounted' /\ loadPc' = "halted")
            => /\ ~isModelLoaded'
               /\ loadingProgress' * NModels = 100 * (loadIdx' - 1)
               /\ loadStarts' = [i \in 1..loadIdx' |-> i]
       /\ (loadPc = "halted" /\ loadPc' # "halted") => reload]_vars

\* C5 witness: the third of the four loads failed.
C5_Witness ==
    /\ mounted
    /\ loadPc = "halted"
    /\ loadIdx = 3
    /\ loadingProgress = 50
    /\ error = [kind |-> "model", model |-> "Face Recognition"]

\* C6: a detection interval is active only while isModelLoaded and
\* isCameraOn are both true, an inference call is started only in such a
\* state, and no interval is set from a state where either flag is false.
C6_RunsOnlyWhenReady ==
    [][/\ activeTimers' # {} => (isModelLoaded' /\ isCameraOn')
       /\ Len(calls') > Len(calls) => (isModelLoaded /\ isCameraOn)
       /\ activeTimers' \ activeTimers # {} => (isModelLoaded /\ isCameraOn)]_vars

\* C6 witness: an interval is active and one of its calls is pending.
C6_Witness ==
    /\ activeTimers # {}
    /\ \E k \in 1..Len(calls) : calls[k].timer \in activeTimers
    /\ isModelLoaded
    /\ isCameraOn

\* C7: when the inference call of a tick fails, the error state, the face
\* count, the expression state and the overlay are left as they were, and
\* the interval stays active, so the next tick calls detection again.
C7_FailureIsSilent ==
    [][(Len(calls') < Len(calls) /\ lastDone'.kind = "failed")
          => /\ error' = error
             /\ UNCHANGED resultVars
             /\ UNCHANGED timerVars]_vars

\* C7 witness: a call failed while a camera error was shown and the
\* interval is still active.
C7_Witness ==
    /\ lastDone.kind = "failed"
    /\ error = CameraError
    /\ activeTimers # {}
    /\ activeTimers \subseteq closureLoaded

\* The greatest confidence of an expression mapping.
MaxOf(e) == CHOOSE m \in 0..MaxConf :
               (\E i \in 1..Len(e) : e[i] = m) /\ (\A i \in 1..Len(e) : e[i] <= m)

\* The positions in Labels of the labels that carry the greatest confidence.
Winners(e) == {i \in 1..Len(e) : e[i] = MaxOf(e)}

\* C8: for a published result with at least one face the mood shown is a
\* label of face 0 with the greatest confidence; among several such labels
\* the one at the last position of the fixed label order is shown; the
\* expressions of the other faces play no part.
C8_DominantMood ==
    (mounted /\ lastDone.kind = "published" /\ lastDone.faces > 0)
        => /\ faceExpressions = lastDone.first
           /\ \E w \in Winners(lastDone.first) :
                 /\ Mood = Labels[w]
                 /\ \A o \in Winners(lastDone.first) : o <= w

\* C8 witness: a result with two faces was published whose face 0 has
\* "neutral" and "happy" tied at the greatest confidence.
C8_Witness ==
    /\ mounted
    /\ lastDone.kind = "published"
    /\ lastDone.faces = 2
    /\ lastDone.first[1] = MaxConf
    /\ lastDone.first[2] = MaxConf
    /\ Mood = "happy"

\* C9: after a result is published the face count is the number of faces
\* of that result, whatever it was before; for a result with no face the
\* overlay is cleared with nothing drawn, the face count is 0, no
\* expression is kept and no mood is shown.
C9_ResultReplaces ==
    [][(mounted /\ Len(calls') < Len(calls) /\ lastDone'.kind = "published")
          => /\ detectedFaces' = lastDone'.faces
             /\ canvas' = lastDone'.faces
             /\ lastDone'.faces = 0
                   => (faceExpressions' = Null /\ Mood' = "none")]_vars

\* C9 witness: a result with no face was published.
C9_Witness ==
    /\ mounted
    /\ lastDone.kind = "published"
    /\ lastDone.faces = 0
    /\ detectedFaces = 0
    /\ canvas = 0

\* C10: when the camera request of startVideo is rejected, the camera error
\* is put in the error state, isCameraOn is false and no stream is bound to
\* the video element; when it is granted, the new stream is bound to the
\* video element and isCameraOn becomes true.
C10_StartOutcome ==
    [][/\ (mounted /\ startVideoDenied)
            => /\ error' = CameraError
               /\ ~isCameraOn'
               /\ srcObject' = 0
       /\ (mounted /\ startVideoGranted)
            => /\ srcObject' \in liveStreams' \ liveStreams
               /\ isCameraOn']_vars

\* C11: when the component unmounts while the camera is on, the detection
\* interval is cancelled, every track of the bound stream is stopped and
\* the binding of the video element is cleared.
C11_UnmountReleases ==
    [][(unmount /\ isCameraOn)
          => /\ activeTimers' = {}
             /\ srcObject \notin liveStreams'
             /\ srcObject' = 0]_vars

\* C12 as stated: the backend answers GET /health with {status: "ok"}.
C12_HealthPath ==
    lastResponse.request = [method |-> "GET", path |-> "/health"]
        => /\ lastResponse.status = 200
           /\ lastResponse.body = [type |-> "json", status |-> "ok"]

\* C12 as amended: the backend answers GET /api/health with {status: "ok"}.
C12_ApiHealthPath ==
    lastResponse.request = [method |-> "GET", path |-> "/api/health"]
        => /\ lastResponse.status = 200
           /\ lastResponse.body = [type |-> "json", status |-> "ok"]

\* C12 witness: GET /api/health was answered with the JSON body.
C12_Witness ==
    /\ lastResponse.request = [method |-> "GET", path |-> "/api/health"]
    /\ lastResponse.body.status = "ok"

\* C13: the loads are called in list order, the load of model i + 1 only
\* after the load of model i has succeeded, so at most one load is pending
\* and only the one called last can be.
C13_SequentialLoads ==
    /\ loadStarts = [i \in 1..Len(loadStarts) |-> i]
    /\ Cardinality(loadsPending) <= 1
    /\ loadsPending \subseteq {loadStarts[Len(loadStarts)]}
    /\ mounted => Len(loadStarts) <= Len(progressLog)

\* C13 witness: the third load is pending after two loads succeeded.
C13_Witness ==
    /\ loadStarts = <<1, 2, 3>>
    /\ loadsPending = {3}
    /\ progressLog = <<0, 25, 50>>

\* C14: when no 2D context is available as the result of a tick arrives,
\* the tick does nothing: the overlay, the face count and the expression
\* state stay as they are, the error state is untouched and the interval
\* stays active for the next tick.
C14_NoContextSkips ==
    [][(Len(calls') < Len(calls) /\ lastDone'.kind = "norender")
          => /\ UNCHANGED resultVars
             /\ UNCHANGED timerVars
             /\ error' = error]_vars

\* C14 witness: a tick found no context after an earlier tick had drawn
\* faces; the drawing and the count are still there, the interval is active.
C14_Witness ==
    /\ mounted
    /\ lastDone.kind = "norender"
    /\ canvas > 0
    /\ detectedFaces = canvas
    /\ activeTimers # {}

\* C15: a call of stopVideo() that finds no stream bound, a second call
\* directly after a first included, leaves the camera flag, the stream
\* binding, the streams, the detection interval and its pending calls, and
\* the error slot as they were.
C15_StopIdempotent ==
    [][(stopVideoCall /\ srcObject = 0)
          => UNCHANGED <<isCameraOn, srcObject, liveStreams, detectionEnabled,
                         intervalId, activeTimers, calls, error>>]_vars

\* stopVideo() was called with no stream bound, after a session in which the
\* camera ran with a detection interval and was stopped.
C15_Witness ==
    /\ mounted
    /\ stoppedIdle
    /\ ~isCameraOn
    /\ srcObject = 0
    /\ intervalId # 0
    /\ activeTimers = {}

\* C16: at most one detection interval is active at any time; a click on
\* Detect Faces leaves only the interval it set active, the one of the
\* previous cycle is cleared; no interval is active once the component is
\* unmounted.
C16_OneTimer ==
    [][/\ Cardinality(activeTimers) <= 1
       /\ Cardinality(activeTimers') <= 1
       /\ handleVideoOnPlay => activeTimers' = {intervalId'}
       /\ ~mounted' => activeTimers' = {}]_vars

\* A second detection cycle runs: its interval is the only one active.
C16_Witness ==
    /\ mounted
    /\ isCameraOn
    /\ intervalId = 2
    /\ activeTimers = {2}

\* C17: results are published in the order their calls were started: the
\* result of a call started before the call whose result is displayed (a
\* stale call) leaves the overlay, the face count and the expression state
\* as they are.
C17_PublishedInStartOrder ==
    [][\A k \in 1..MaxCalls :
          (/\ mounted
           /\ k <= Len(calls)
           /\ calls[k].stale
           /\ \E det \in Detections : detectionResolved(k, det, TRUE))
          => UNCHANGED resultVars]_vars

\* C18: no acquired stream is leaked: once stopVideo has run with no
\* getUserMedia request pending, every stream that was acquired has its
\* tracks stopped.
C18_NoStreamLeak ==
    [][(stopVideo /\ pendingCam = 0) => liveStreams' = {}]_vars

\* C19 as stated: in every reachable state isCameraOn is true if and only
\* if a stream is bound to the video element; a granted startVideo on the
\* mounted component sets both, stopVideo clears both, and no other step
\* changes either one.
C19_FlagIffBound ==
    [][/\ isCameraOn <=> srcObject # 0
       /\ isCameraOn' <=> srcObject' # 0
       /\ (startVideoGranted /\ mounted) => (isCameraOn' /\ srcObject' # 0)
       /\ stopVideo => (~isCameraOn' /\ srcObject' = 0)
       /\ (isCameraOn' # isCameraOn \/ srcObject' # srcObject)
             => (startVideoGranted \/ stopVideo)]_vars

\* C19 amended: as above, and the page reload of Try Again is the one other
\* step that changes them: it resets both with the rest of the page.
C19_FlagIffBoundOrReload ==
    [][/\ isCameraOn <=> srcObject # 0
       /\ isCameraOn' <=> srcObject' # 0
       /\ (startVideoGranted /\ mounted) => (isCameraOn' /\ srcObject' # 0)
       /\ stopVideo => (~isCameraOn' /\ srcObject' = 0)
       /\ reload => (~isCameraOn' /\ srcObject' = 0)
       /\ (isCameraOn' # isCameraOn \/ srcObject' # srcObject)
             => (startVideoGranted \/ stopVideo \/ reload)]_vars

\* A granted startVideo has bound its stream and set the flag.
C19_Witness ==
    /\ mounted
    /\ isCameraOn
    /\ srcObject # 0
    /\ srcObject \in liveStreams
    /\ pendingCam = 0

====
